---- MODULE Spec2Model ----
(***************************************************************************)
(* A model of the barium drawing library: the Color type of src/color.rs   *)
(* (hex parsing and formatting, HSV construction, component-wise           *)
(* arithmetic) over IEEE-754 binary32 values, and the Canvas / Renderer    *)
(* pair that src/lib.rs declares and examples/smile.rs drives.             *)
(***************************************************************************)
EXTENDS Integers, Sequences, FiniteSets, TLC

(***************************************************************************)
(* binary32 (Rust f32).  A finite value is (-1)^sgn * man * 2^exp with     *)
(* man < 2^24; it is normal when man >= 2^23 and subnormal when            *)
(* exp = EMin.  Zero is man = 0 (the sign of zero is not kept: no          *)
(* operation of Color distinguishes -0.0 from 0.0).  All arithmetic stays  *)
(* below 2^31, the width of TLC's integers.                                *)
(***************************************************************************)
Pow2[n \in 0..30] == IF n = 0 THEN 1 ELSE 2 * Pow2[n - 1]

\* the number of bits of n, for 0 <= n < 2^31, by halving the width
BitLen2(n) == IF n >= 2 THEN 2 ELSE n
BitLen4(n) == IF n >= 4 THEN 2 + BitLen2(n \div 4) ELSE BitLen2(n)
BitLen8(n) == IF n >= 16 THEN 4 + BitLen4(n \div 16) ELSE BitLen4(n)
BitLen16(n) == IF n >= 256 THEN 8 + BitLen8(n \div 256) ELSE BitLen8(n)
BitLen(n) == IF n >= 65536 THEN 16 + BitLen16(n \div 65536) ELSE BitLen16(n)

Max(a, b) == IF a >= b THEN a ELSE b
Min(a, b) == IF a <= b THEN a ELSE b

\* exponent of the least subnormal (2^-149) and of the largest finite value
EMin == 0 - (126 + 23)
EMax == 127 - 23

Fin(s, m, e) == [k |-> "fin", sgn |-> s, man |-> m, exp |-> e]
Zero == Fin(0, 0, 0)
NaN == [k |-> "nan", sgn |-> 0, man |-> 0, exp |-> 0]
Inf(s) == [k |-> "inf", sgn |-> s, man |-> 0, exp |-> 0]

IsZero(x) == x.k = "fin" /\ x.man = 0

\* round to nearest, ties to even: the quotient q with the dropped bits r out
\* of 2 * half
Nearest(q, r, half) == IF r > half \/ (r = half /\ q % 2 = 1) THEN q + 1 ELSE q

\* the finite value m * 2^x for m <= 2^24 (a carry out of the rounding makes
\* m = 2^24), overflowing to an infinity
Carry(s, m, x) ==
    IF m = 0 THEN Zero
    ELSE IF m = Pow2[24]
         THEN (IF x + 1 > EMax THEN Inf(s) ELSE Fin(s, Pow2[23], x + 1))
    ELSE IF x > EMax THEN Inf(s) ELSE Fin(s, m, x)

\* n * 2^e with sh bits dropped from n (sh <= 0: none dropped, n widened)
RoundShift(s, n, e, sh) ==
    IF sh <= 0
    THEN (IF e + sh > EMax THEN Inf(s) ELSE Fin(s, n * Pow2[0 - sh], e + sh))
    ELSE IF sh > 30 THEN Zero
    ELSE Carry(s, Nearest(n \div Pow2[sh], n % Pow2[sh], Pow2[sh - 1]), e + sh)

\* Round to nearest, ties to even: the binary32 nearest to (-1)^s * n * 2^e,
\* for 0 <= n < 2^30.  A caller that has dropped low bits has or-ed them into
\* bit 0 of n and left n at least 26 bits long.
RoundPack(s, n, e) ==
    IF n = 0 THEN Zero
    ELSE RoundShift(s, n, e, Max(BitLen(n) - 24, EMin - e))

\* `n as f32` for an integer 0 <= n < 2^24 (exact)
FromInt(n) == RoundPack(0, n, 0)

FNeg(x) == IF x.k = "nan" \/ IsZero(x) THEN x ELSE [x EXCEPT !.sgn = 1 - x.sgn]
FAbs(x) == IF x.k = "nan" THEN x ELSE [x EXCEPT !.sgn = 0]

\* a nonzero finite x with its mantissa moved up k bits
Shifted(x, k) == [x EXCEPT !.man = x.man * Pow2[k], !.exp = x.exp - k]

\* a nonzero finite x with a 24-bit mantissa (man >= 2^23; exp may pass EMin)
Normal(x) == Shifted(x, 24 - BitLen(x.man))

\* or-ing the dropped bits r into bit 0 of q
Sticky(q, r) == IF r # 0 /\ q % 2 = 0 THEN q + 1 ELSE q

\* magnitude comparison of two Normal values: -1, 0, 1
CmpNormal(a, b) ==
    IF a.exp # b.exp THEN (IF a.exp < b.exp THEN 0 - 1 ELSE 1)
    ELSE IF a.man = b.man THEN 0 ELSE IF a.man < b.man THEN 0 - 1 ELSE 1

\* magnitude comparison of two finite values: -1, 0, 1
CmpMag(a, b) ==
    IF a.man = 0 \/ b.man = 0
    THEN (IF a.man = b.man THEN 0 ELSE IF a.man = 0 THEN 0 - 1 ELSE 1)
    ELSE CmpNormal(Normal(a), Normal(b))

\* a < b and a <= b of f32 (false when either side is NaN)
FLt(a, b) ==
    IF a.k = "nan" \/ b.k = "nan" THEN FALSE
    ELSE IF a.k = "inf" THEN a.sgn = 1 /\ ~(b.k = "inf" /\ b.sgn = 1)
    ELSE IF b.k = "inf" THEN b.sgn = 0
    ELSE IF IsZero(a) /\ IsZero(b) THEN FALSE
    ELSE IF a.sgn # b.sgn THEN a.sgn = 1
    ELSE IF a.sgn = 0 THEN CmpMag(a, b) < 0 ELSE CmpMag(b, a) < 0

FEq(a, b) == a.k # "nan" /\ b.k # "nan" /\ a = b
FLe(a, b) == FLt(a, b) \/ FEq(a, b)

\* ms moved down d bits to the exponent of the larger operand, the bits that
\* fall off or-ed into bit 0
Aligned(ms, d) == IF d >= 28 THEN 1 ELSE Sticky(ms \div Pow2[d], ms % Pow2[d])

\* big + sml for Normal values with |big| >= |sml|, three guard bits below
AddOrdered(big, sml) ==
    RoundPack(big.sgn,
              IF big.sgn = sml.sgn
              THEN big.man * 8 + Aligned(sml.man * 8, big.exp - sml.exp)
              ELSE big.man * 8 - Aligned(sml.man * 8, big.exp - sml.exp),
              big.exp - 3)

\* a + b of f32
FAdd(a, b) ==
    IF a.k = "nan" \/ b.k = "nan" THEN NaN
    ELSE IF a.k = "inf" THEN (IF b.k = "inf" /\ b.sgn # a.sgn THEN NaN ELSE a)
    ELSE IF b.k = "inf" THEN b
    ELSE IF IsZero(a) THEN b
    ELSE IF IsZero(b) THEN a
    ELSE IF CmpMag(a, b) >= 0 THEN AddOrdered(Normal(a), Normal(b))
    ELSE AddOrdered(Normal(b), Normal(a))

FSub(a, b) == FAdd(a, FNeg(b))

\* the 48-bit product hi * 2^24 + lo cut to its top 30 bits (t of them from lo)
MulKeep(s, hi, lo, t, e) ==
    RoundPack(s, Sticky(hi * Pow2[t] + (lo \div Pow2[24 - t]), lo % Pow2[24 - t]),
              e + 24 - t)

MulTop(s, hi, lo, e) == MulKeep(s, hi, lo, Min(24, 30 - BitLen(hi)), e)

\* the product hh * 2^24 + mid * 2^12 + ll as hi * 2^24 + lo
MulHiLo(s, h, lor, e) == MulTop(s, h + (lor \div Pow2[24]), lor % Pow2[24], e)

MulWide(s, hh, mid, ll, e) ==
    MulHiLo(s, hh + (mid \div 4096), (mid % 4096) * 4096 + ll, e)

\* the product of two mantissas from their 12-bit limbs
MulLimbs(s, a1, a0, b1, b0, e) ==
    MulWide(s, a1 * b1, a1 * b0 + a0 * b1, a0 * b0, e)

\* a * b of f32: the 48-bit product from 12-bit limbs, its top 30 bits kept
FMul(a, b) ==
    IF a.k = "nan" \/ b.k = "nan" THEN NaN
    ELSE IF a.k = "inf" \/ b.k = "inf"
         THEN (IF IsZero(a) \/ IsZero(b) THEN NaN ELSE Inf((a.sgn + b.sgn) % 2))
    ELSE IF IsZero(a) \/ IsZero(b) THEN Zero
    ELSE MulLimbs((a.sgn + b.sgn) % 2, a.man \div 4096, a.man % 4096,
                  b.man \div 4096, b.man % 4096, a.exp + b.exp)

\* long division: the quotient of (r * 2^n) / d after n more bits, and the remainder
RECURSIVE DivBits(_, _, _, _)
DivBits(q, r, d, n) ==
    IF n = 0 THEN <<q, r>>
    ELSE IF 2 * r >= d THEN DivBits(2 * q + 1, 2 * r - d, d, n - 1)
         ELSE DivBits(2 * q, 2 * r, d, n - 1)

\* the quotient and remainder qr of a long division, rounded
DivRound(s, qr, e) == RoundPack(s, Sticky(qr[1], qr[2]), e)

\* a / b for Normal values: 26 quotient bits below the leading one
DivNormal(s, a, b) ==
    DivRound(s, DivBits(a.man \div b.man, a.man % b.man, b.man, 26), a.exp - b.exp - 26)

\* a / b of f32
FDiv(a, b) ==
    IF a.k = "nan" \/ b.k = "nan" THEN NaN
    ELSE IF a.k = "inf" THEN (IF b.k = "inf" THEN NaN ELSE Inf((a.sgn + b.sgn) % 2))
    ELSE IF b.k = "inf" THEN Zero
    ELSE IF IsZero(b) THEN (IF IsZero(a) THEN NaN ELSE Inf((a.sgn + b.sgn) % 2))
    ELSE IF IsZero(a) THEN Zero
    ELSE DivNormal((a.sgn + b.sgn) % 2, Normal(a), Normal(b))

\* the remainder left out
FRem2Dropped(a) == a

\* a % 2.0 of f32 (fmod: exact, with the sign of a)
FRem2(a) ==
    IF a.k # "fin" THEN NaN
    ELSE IF IsZero(a) THEN Zero
    ELSE IF a.exp >= 1 THEN Zero
    ELSE IF 1 - a.exp > 24 THEN a
    ELSE RoundPack(a.sgn, a.man % Pow2[1 - a.exp], a.exp)

\* a cast that rounds to the nearest integer instead of truncating
AsU8Rounded(x) ==
    IF x.k = "nan" THEN 0
    ELSE IF x.k = "inf" THEN (IF x.sgn = 1 THEN 0 ELSE 255)
    ELSE IF x.man = 0 \/ x.sgn = 1 THEN 0
    ELSE IF x.exp >= 0 THEN 255
    ELSE IF 0 - x.exp > 24 THEN 0
    ELSE Min(255, (x.man + Pow2[0 - x.exp - 1]) \div Pow2[0 - x.exp])

\* `x as u8`: truncation toward zero, saturating, NaN to 0
AsU8(x) ==
    IF x.k = "nan" THEN 0
    ELSE IF x.k = "inf" THEN (IF x.sgn = 1 THEN 0 ELSE 255)
    ELSE IF x.man = 0 \/ x.sgn = 1 THEN 0
    ELSE IF x.exp >= 0 THEN 255
    ELSE IF 0 - x.exp >= 24 THEN 0
    ELSE Min(255, x.man \div Pow2[0 - x.exp])


(***************************************************************************)
(* Color: four f32 channels (the Vec4 `inner`).                            *)
(***************************************************************************)
Color_new(r, g, b, a) == [r |-> r, g |-> g, b |-> b, a |-> a]

One == FromInt(1)
F255 == FromInt(255)

white == Color_new(One, One, One, One)
black == Color_new(Zero, Zero, Zero, One)
transparent == Color_new(Zero, Zero, Zero, Zero)

\* component-wise operators of Color (glam's Vec4 arithmetic)
Color_add(c, d) == Color_new(FAdd(c.r, d.r), FAdd(c.g, d.g), FAdd(c.b, d.b), FAdd(c.a, d.a))
Color_sub(c, d) == Color_new(FSub(c.r, d.r), FSub(c.g, d.g), FSub(c.b, d.b), FSub(c.a, d.a))
Color_mul_f32(c, x) == Color_new(FMul(c.r, x), FMul(c.g, x), FMul(c.b, x), FMul(c.a, x))

(***************************************************************************)
(* Strings are sequences of bytes.  An ASCII byte is the one-character     *)
(* string of its character; the two bytes of U+00E9 (UTF-8 C3 A9) are      *)
(* "C3" (a lead byte) and "A9" (a continuation byte).                      *)
(***************************************************************************)
DecDigits == <<"0", "1", "2", "3", "4", "5", "6", "7", "8", "9">>
LowerLetters == <<"a", "b", "c", "d", "e", "f", "g", "h", "i", "j", "k", "l", "m",
                  "n", "o", "p", "q", "r", "s", "t", "u", "v", "w", "x", "y", "z">>
UpperLetters == <<"A", "B", "C", "D", "E", "F", "G", "H", "I", "J", "K", "L", "M",
                  "N", "O", "P", "Q", "R", "S", "T", "U", "V", "W", "X", "Y", "Z">>
UpperHexDigits == DecDigits \o SubSeq(UpperLetters, 1, 6)

IndexOf(seq, ch) == IF \E i \in 1..Len(seq) : seq[i] = ch
                    THEN CHOOSE i \in 1..Len(seq) : seq[i] = ch
                    ELSE 0

\* a to_digit that knows no uppercase digit
to_digit_lowercase(ch) ==
    IF IndexOf(DecDigits, ch) > 0 THEN IndexOf(DecDigits, ch) - 1
    ELSE IF IndexOf(SubSeq(LowerLetters, 1, 6), ch) > 0 THEN IndexOf(LowerLetters, ch) + 9
    ELSE 0 - 1

\* the bytes strings are made of
Bytes == {DecDigits[i] : i \in 1..10} \cup {LowerLetters[i] : i \in 1..26}
         \cup {UpperLetters[i] : i \in 1..26} \cup {"#", "+", "-", "C3", "A9"}

\* char::to_digit(16) of each byte: the digit's value, or -1 for a character that is none
DigitOf[ch \in Bytes] ==
    IF IndexOf(DecDigits, ch) > 0 THEN IndexOf(DecDigits, ch) - 1
    ELSE IF IndexOf(SubSeq(LowerLetters, 1, 6), ch) > 0 THEN IndexOf(LowerLetters, ch) + 9
    ELSE IF IndexOf(SubSeq(UpperLetters, 1, 6), ch) > 0 THEN IndexOf(UpperLetters, ch) + 9
    ELSE 0 - 1

to_digit(ch) == DigitOf[ch]

\* the digits of src folded left to right from acc; -1 on a non-digit or a value above u8::MAX
RECURSIVE FoldDigits(_, _)
FoldDigits(src, acc) ==
    IF src = <<>> THEN acc
    ELSE IF to_digit(Head(src)) < 0 \/ acc * 16 + to_digit(Head(src)) > 255 THEN 0 - 1
    ELSE FoldDigits(Tail(src), acc * 16 + to_digit(Head(src)))

\* u8::from_str_radix(src, 16): the value, or -1 for Err(ParseIntError).  An
\* unsigned type takes one leading "+" and no "-".
from_str_radix(src) ==
    IF src = <<>> THEN 0 - 1
    ELSE IF src = <<"+">> \/ src = <<"-">> THEN 0 - 1
    ELSE IF Head(src) = "+" THEN FoldDigits(Tail(src), 0)
    ELSE FoldDigits(src, 0)

\* str::is_char_boundary for a byte offset (0-based)
is_char_boundary(hex, i) ==
    i = 0 \/ i = Len(hex) \/ (i < Len(hex) /\ hex[i + 1] # "A9")

\* &hex[from..to] is defined (it panics otherwise)
SliceOk(hex, from, to) ==
    from <= to /\ to <= Len(hex) /\ is_char_boundary(hex, from) /\ is_char_boundary(hex, to)

Slice(hex, from, to) == SubSeq(hex, from + 1, to)

starts_with(hex, pat) == Len(hex) >= Len(pat) /\ SubSeq(hex, 1, Len(pat)) = pat

\* `n as f32 / 255.0` for each u8 n
Unit[n \in 0..255] == FDiv(FromInt(n), F255)

\* the outcome of a call: "Ok" with a color, "Err" (a ParseIntError), or "Panic"
Res(kind, c) == [k |-> kind, c |-> c]
Ok(c) == Res("Ok", c)
Err == Res("Err", transparent)
Panic == Res("Panic", transparent)

\* a start index that knows "#" alone
StartIndexHash(hex) == IF starts_with(hex, <<"#">>) THEN 1 ELSE 0

\* the first index from_hex reads a digit at
StartIndex(hex) ==
    IF starts_with(hex, <<"#">>) THEN 1
    ELSE IF starts_with(hex, <<"0", "x">>) THEN 2
    ELSE 0

\* one `u8::from_str_radix(&hex[i..i + 2], 16)? as f32 / 255.0`: the channel, with
\* k = "Panic" when the slice is out of range and k = "Err" when the pair does not parse
Channel(hex, i) ==
    IF ~SliceOk(hex, i, i + 2) THEN [k |-> "Panic", v |-> Zero]
    ELSE IF from_str_radix(Slice(hex, i, i + 2)) < 0 THEN [k |-> "Err", v |-> Zero]
    ELSE [k |-> "Ok", v |-> Unit[from_str_radix(Slice(hex, i, i + 2))]]

from_hex(hex) ==
    LET s == StartIndex(hex)
        r == Channel(hex, s)
        g == Channel(hex, s + 2)
        b == Channel(hex, s + 4)
        a == Channel(hex, s + 6)
    IN IF r.k # "Ok" THEN Res(r.k, transparent)
       ELSE IF g.k # "Ok" THEN Res(g.k, transparent)
       ELSE IF b.k # "Ok" THEN Res(b.k, transparent)
       ELSE IF s + 6 >= Len(hex) THEN Ok(Color_new(r.v, g.v, b.v, One))
       ELSE IF a.k # "Ok" THEN Res(a.k, transparent)
       ELSE Ok(Color_new(r.v, g.v, b.v, a.v))

\* format!("{:X}", n): no zero padding
UpperHexNoPad(n) ==
    IF n < 16 THEN <<UpperHexDigits[n + 1]>>
    ELSE <<UpperHexDigits[(n \div 16) + 1], UpperHexDigits[(n % 16) + 1]>>

\* format!("{:02X}", n) for a u8
UpperHex02(n) == <<UpperHexDigits[(n \div 16) + 1], UpperHexDigits[(n % 16) + 1]>>

as_hex(c, include_alpha) ==
    IF include_alpha
    THEN <<"#">> \o UpperHex02(AsU8(FMul(c.r, F255))) \o UpperHex02(AsU8(FMul(c.g, F255)))
                 \o UpperHex02(AsU8(FMul(c.b, F255))) \o UpperHex02(AsU8(FMul(c.a, F255)))
    ELSE <<"#">> \o UpperHex02(AsU8(FMul(c.r, F255))) \o UpperHex02(AsU8(FMul(c.g, F255)))
                 \o UpperHex02(AsU8(FMul(c.b, F255)))

\* <<r, g, b>> as the if-chain on hp leaves them (each starts at 0.0)
from_hsv_sector(hp, c, x) ==
    IF FLe(hp, FromInt(1)) THEN <<c, x, Zero>>
    ELSE IF FLe(hp, FromInt(2)) THEN <<x, c, Zero>>
    ELSE IF FLe(hp, FromInt(3)) THEN <<Zero, c, x>>
    ELSE IF FLe(hp, FromInt(4)) THEN <<Zero, x, c>>
    ELSE IF FLe(hp, FromInt(5)) THEN <<x, Zero, c>>
    ELSE <<c, Zero, x>>

\* r += m; g += m; b += m; Self::new(r, g, b, 1.0)
from_hsv_shift(rgb, m) ==
    Ok(Color_new(FAdd(rgb[1], m), FAdd(rgb[2], m), FAdd(rgb[3], m), One))

\* from hp and c on: x = c * (1.0 - (hp % 2.0 - 1.0).abs()) and m = value - c
from_hsv_chroma(hp, c, value) ==
    from_hsv_shift(from_hsv_sector(hp, c, FMul(c, FSub(One, FAbs(FSub(FRem2(hp), One))))),
                   FSub(value, c))

from_hsv(hue, saturation, value) ==
    IF FLt(FromInt(3), FAdd(FAdd(hue, saturation), value)) THEN Panic
    ELSE from_hsv_chroma(FDiv(hue, FDiv(One, FromInt(6))), FMul(saturation, value), value)

(***************************************************************************)
(* Canvas, shapes and renderers (modules canvas and renderers of lib.rs).  *)
(* Coordinates and widths are in hundredths of a logical unit.             *)
(***************************************************************************)
None == [some |-> FALSE]
Some(x) == [some |-> TRUE, val |-> x]

Stroke_new(color, width, line_end) == [color |-> color, width |-> width, line_end |-> line_end]

Circle(center, radius) == [t |-> "Circle", center |-> center, radius |-> radius]
Line(start, end) == [t |-> "Line", start |-> start, end |-> end]
QuadraticBezier(start, control, end) ==
    [t |-> "QuadraticBezier", start |-> start, control |-> control, end |-> end]
Path(segments) == [t |-> "Path", segments |-> segments]

Canvas_new(size) == [size |-> size, shapes |-> <<>>]

\* every draw_* call pushes one (shape, stroke, fill) record
Push(cv, shape, stroke, fill) ==
    [cv EXCEPT !.shapes = Append(@, [shape |-> shape, stroke |-> stroke, fill |-> fill])]

draw_circle(cv, center, radius, stroke, fill) == Push(cv, Circle(center, radius), stroke, fill)
draw_line(cv, start, end, stroke, fill) == Push(cv, Line(start, end), stroke, fill)
draw_quadratic_bezier(cv, start, control, end, stroke, fill) ==
    Push(cv, QuadraticBezier(start, control, end), stroke, fill)
draw_path(cv, path, stroke, fill) == Push(cv, Path(path), stroke, fill)

SvgRenderer_new(size, background) == [kind |-> "svg", size |-> size, background |-> background]
SkiaRenderer_new(size, background) == [kind |-> "skia", size |-> size, background |-> background]

\* what a backend emits for one record: an element of the document, or a paint
\* operation on the pixel buffer
Emit(rd, rec) == [of |-> rec.shape.t, shape |-> rec.shape, stroke |-> rec.stroke, fill |-> rec.fill]

\* the list walked from its end
EmitAllReversed(rd, shapes) == [i \in 1..Len(shapes) |-> Emit(rd, shapes[Len(shapes) + 1 - i])]

EmitAll(rd, shapes) == [i \in 1..Len(shapes) |-> Emit(rd, shapes[i])]

Background(rd) ==
    IF rd.background.some
    THEN <<[of |-> "Background", shape |-> [t |-> "Rect", size |-> rd.size], stroke |-> None,
            fill |-> rd.background]>>
    ELSE <<>>

\* Canvas::render: the renderer's output for the shape list, in insertion order
render(cv, rd) ==
    [kind |-> rd.kind, size |-> rd.size, body |-> Background(rd) \o EmitAll(rd, cv.shapes)]

(***************************************************************************)
(* Inputs of the operations.                                               *)
(***************************************************************************)
\* longest digit string handed to from_hex, before a prefix is put in front
MaxBody == 9
\* channel values k / ChanDen and hue, saturation, value k / HsvDen
ChanDen == 256
HsvDen == 12
\* how far past 1.0 (and below 0.0) the HSV inputs go, in steps of 1 / HsvDen
HsvOver == 6
\* draw_* calls on one canvas
MaxShapes == 4

BaseChars == {"a", "F"}
SubstChars == {<<"0">>, <<"9">>, <<"f">>, <<"g">>, <<"+">>, <<"-">>, <<"x">>, <<"C3", "A9">>}
Prefixes == {<<>>, <<"#">>, <<"0", "x">>, <<"0", "X">>}

\* body with its p-th character replaced by ch (p = 0: body itself)
Subst(body, p, ch) ==
    IF p = 0 THEN body
    ELSE SubSeq(body, 1, p - 1) \o ch \o SubSeq(body, p + 1, Len(body))

\* 1.0 - 2^-24 and 1.0 + 2^-23, the neighbours of 1.0
BelowOne == Fin(0, Pow2[24] - 1, 0 - 24)
AboveOne == Fin(0, Pow2[23] + 1, 0 - 23)

WideChannels ==
    {FDiv(FromInt(k), FromInt(ChanDen)) : k \in 0..ChanDen}
    \cup {FDiv(FromInt(k), F255) : k \in 0..255}
    \cup {BelowOne, AboveOne, FNeg(FDiv(One, FromInt(2))), FromInt(2), NaN, Inf(0), Inf(1)}
NarrowChannels == {Zero, FDiv(One, FromInt(2)), One}

WithChannel(c, i, x) ==
    IF i = 1 THEN [c EXCEPT !.r = x]
    ELSE IF i = 2 THEN [c EXCEPT !.g = x]
    ELSE IF i = 3 THEN [c EXCEPT !.b = x]
    ELSE [c EXCEPT !.a = x]

HsvInputs ==
    {FDiv(FromInt(k), FromInt(HsvDen)) : k \in 0..(HsvDen + HsvOver)}
    \cup {FNeg(FDiv(FromInt(k), FromInt(HsvDen))) : k \in 1..HsvOver}

\* the arguments of examples/smile.rs
FaceFill == from_hex(<<"#", "f", "e", "c", "b", "0", "0">>).c
EyeStroke == Stroke_new(black, 20, "Round")
MouthStroke == Stroke_new(black, 2, "Round")
Renderers ==
    {SvgRenderer_new(1000, None), SvgRenderer_new(1000, Some(white)),
     SkiaRenderer_new(1000, None)}

VARIABLES
    pc,             \* where the caller is
    hex,            \* the string handed to from_hex / returned by as_hex
    result,         \* what from_hex or from_hsv returned
    color,          \* the color as_hex formats
    include_alpha,  \* as_hex's flag
    rehex,          \* as_hex of the parsed color
    hsv,            \* <<hue, saturation, value>>
    canvas,         \* the Canvas
    drawn,          \* draw_* calls made so far
    renderer,       \* the renderer handed to the last render
    output          \* what the last render returned

vars == <<pc, hex, result, color, include_alpha, rehex, hsv, canvas, drawn, renderer, output>>

NoRenderer == [kind |-> "none", size |-> 0, background |-> None]
NoOutput == [kind |-> "none", size |-> 0, body |-> <<>>]

colorVars == <<hex, result, color, include_alpha, rehex, hsv>>
canvasVars == <<canvas, drawn, renderer, output>>

(***************************************************************************)
(* Color::from_hex on a string.                                            *)
(***************************************************************************)
FromHex ==
    /\ pc = "parse"
    /\ result' = from_hex(hex)
    /\ pc' = "parsed"
    /\ UNCHANGED <<hex, color, include_alpha, rehex, hsv, canvasVars>>

InitFromHex ==
    /\ pc = "parse"
    /\ \E pre \in Prefixes, n \in 0..MaxBody :
        \E body \in [1..n -> BaseChars], p \in 0..n :
            \E ch \in IF p = 0 THEN {<<>>} ELSE SubstChars :
                hex = pre \o Subst(body, p, ch)
    /\ result = Err
    /\ color = transparent
    /\ include_alpha = FALSE
    /\ rehex = <<>>
    /\ hsv = <<Zero, Zero, Zero>>
    /\ canvas = Canvas_new(0)
    /\ drawn = 0
    /\ renderer = NoRenderer
    /\ output = NoOutput

NextFromHex == FromHex

SpecFromHex == InitFromHex /\ [][NextFromHex]_vars

(***************************************************************************)
(* Properties of from_hex.                                                 *)
(***************************************************************************)
HexChars == {"0", "1", "2", "3", "4", "5", "6", "7", "8", "9",
             "a", "b", "c", "d", "e", "f", "A", "B", "C", "D", "E", "F"}
AllHex(str) == \A i \in 1..Len(str) : str[i] \in HexChars
IsAscii(str) == \A i \in 1..Len(str) : str[i] \notin {"C3", "A9"}

\* what follows the optional "#" / "0x"
Digits(str) == SubSeq(str, StartIndex(str) + 1, Len(str))

HexValue(ch) ==
    CASE ch \in {"a", "A"} -> 10 [] ch \in {"b", "B"} -> 11 [] ch \in {"c", "C"} -> 12
      [] ch \in {"d", "D"} -> 13 [] ch \in {"e", "E"} -> 14 [] ch \in {"f", "F"} -> 15
      [] OTHER -> IndexOf(DecDigits, ch) - 1
PairValue(d, i) == 16 * HexValue(d[2 * i - 1]) + HexValue(d[2 * i])

LowerChar[ch \in Bytes] ==
    IF IndexOf(UpperLetters, ch) > 0 THEN LowerLetters[IndexOf(UpperLetters, ch)] ELSE ch
UpperChar[ch \in Bytes] ==
    IF IndexOf(LowerLetters, ch) > 0 THEN UpperLetters[IndexOf(LowerLetters, ch)] ELSE ch
ToLower(str) == [i \in 1..Len(str) |-> LowerChar[str[i]]]
ToUpper(str) == [i \in 1..Len(str) |-> UpperChar[str[i]]]
\* the letter case changed after the prefix only
LowerDigits(str) == SubSeq(str, 1, StartIndex(str)) \o ToLower(Digits(str))
UpperDigits(str) == SubSeq(str, 1, StartIndex(str)) \o ToUpper(Digits(str))

\* C1: a string of hex digits too short for the form it starts (fewer than 6
\* digits after the prefix, or exactly 7) makes from_hex return Err, never panic.
C1_ShortIsErr ==
    (pc = "parsed" /\ AllHex(Digits(hex)) /\ (Len(Digits(hex)) < 6 \/ Len(Digits(hex)) = 7))
        => result.k = "Err"

\* C3: on a string of 6 or 8 ASCII characters after the prefix, from_hex returns
\* Err when one of them is no hex digit and Ok only when all of them are hex digits.
C3_NonHexIsErr ==
    (pc = "parsed" /\ IsAscii(hex) /\ Len(Digits(hex)) \in {6, 8})
        => /\ ~AllHex(Digits(hex)) => result.k = "Err"
           /\ result.k = "Ok" => AllHex(Digits(hex))

\* both the same Ok color, or both a failure
SameOutcome(x, y) == IF x.k = "Ok" THEN y = x ELSE y.k # "Ok"

\* C5 as claimed: strings that differ only in letter case, the prefix's "x"
\* included, give the same result: the same Ok color or both an error.
C5_CaseInsensitive ==
    pc = "parsed" => (SameOutcome(result, from_hex(ToLower(hex)))
                      /\ SameOutcome(result, from_hex(ToUpper(hex))))

\* C5 as amended: from_hex gives the same result whatever the case of the ASCII
\* letters after the prefix; "0X" is no prefix, a string that starts with it is an Err.
C5_CaseInsensitiveDigits ==
    pc = "parsed" =>
        /\ result = from_hex(UpperDigits(hex))
        /\ ~starts_with(hex, <<"0", "X">>) => result = from_hex(LowerDigits(hex))
        /\ starts_with(hex, <<"0", "X">>) => result.k = "Err"

C5_Witness ==
    /\ pc = "parsed"
    /\ hex = <<"0", "x", "a", "F", "a", "F", "f", "a">>
    /\ result.k = "Ok"
    /\ UpperDigits(hex) # hex
    /\ LowerDigits(hex) # hex

\* the color C6 names for 6 or 8 hex digits d
ColorOfDigits(d) ==
    Color_new(Unit[PairValue(d, 1)], Unit[PairValue(d, 2)], Unit[PairValue(d, 3)],
              IF Len(d) = 8 THEN Unit[PairValue(d, 4)] ELSE One)

\* C6: for 6 or 8 hex digits D, from_hex(D), from_hex("#" + D) and
\* from_hex("0x" + D) are the same Ok color: each channel its digit pair / 255,
\* alpha 1.0 for 6 digits and the fourth pair / 255 for 8.
C6_PrefixAndChannels ==
    (pc = "parsed" /\ AllHex(hex) /\ Len(hex) \in {6, 8})
        => /\ result = Ok(ColorOfDigits(hex))
           /\ from_hex(<<"#">> \o hex) = result
           /\ from_hex(<<"0", "x">> \o hex) = result

C6_Witness ==
    /\ pc = "parsed"
    /\ hex = <<"a", "F", "0", "a", "F", "a", "a", "F">>
    /\ result.k = "Ok"
    /\ result.c.a # One
    /\ result.c.b = FDiv(FromInt(250), F255)
    /\ from_hex(<<"0", "x">> \o hex) = result

(***************************************************************************)
(* Color arithmetic, as_hex, from_hex of its string, as_hex of that color. *)
(***************************************************************************)
ColorAdd ==
    /\ pc = "new"
    /\ color' = Color_add(color, white)
    /\ pc' = "arith"
    /\ UNCHANGED <<hex, result, include_alpha, rehex, hsv, canvasVars>>

ColorSub ==
    /\ pc = "new"
    /\ color' = Color_sub(color, white)
    /\ pc' = "arith"
    /\ UNCHANGED <<hex, result, include_alpha, rehex, hsv, canvasVars>>

ColorScale ==
    /\ pc = "new"
    /\ color' = Color_mul_f32(color, FromInt(2))
    /\ pc' = "arith"
    /\ UNCHANGED <<hex, result, include_alpha, rehex, hsv, canvasVars>>

AsHex ==
    /\ pc \in {"new", "arith"}
    /\ hex' = as_hex(color, include_alpha)
    /\ pc' = "parse"
    /\ UNCHANGED <<result, color, include_alpha, rehex, hsv, canvasVars>>

Reformat ==
    /\ pc = "parsed"
    /\ result.k = "Ok"
    /\ rehex' = as_hex(result.c, include_alpha)
    /\ pc' = "done"
    /\ UNCHANGED <<hex, result, color, include_alpha, hsv, canvasVars>>

InitAsHex ==
    /\ pc = "new"
    /\ \E n \in NarrowChannels, i \in 1..4, w \in WideChannels :
        color = WithChannel(Color_new(n, n, n, n), i, w)
    /\ include_alpha \in BOOLEAN
    /\ hex = <<>>
    /\ result = Err
    /\ rehex = <<>>
    /\ hsv = <<Zero, Zero, Zero>>
    /\ canvas = Canvas_new(0)
    /\ drawn = 0
    /\ renderer = NoRenderer
    /\ output = NoOutput

NextAsHex == ColorAdd \/ ColorSub \/ ColorScale \/ AsHex \/ FromHex \/ Reformat

SpecAsHex == InitAsHex /\ [][NextAsHex]_vars

(***************************************************************************)
(* Properties of as_hex.                                                   *)
(***************************************************************************)
InUnit(x) == FLe(Zero, x) /\ FLe(x, One)
ColorInUnit(c) == InUnit(c.r) /\ InUnit(c.g) /\ InUnit(c.b) /\ InUnit(c.a)

\* the color whose channels are the bytes of the string "#RRGGBB[AA]" over 255
QuantizedOf(str, alpha) ==
    Color_new(Unit[PairValue(Tail(str), 1)], Unit[PairValue(Tail(str), 2)],
              Unit[PairValue(Tail(str), 3)],
              IF alpha THEN Unit[PairValue(Tail(str), 4)] ELSE One)

\* C2: for a color with every channel in [0, 1], from_hex(as_hex(c, f)) is Ok and
\* is the 8-bit-quantized c (each formatted byte b back as b / 255, alpha 1.0
\* without the flag), and formatting that color again gives the same string.
C2_RoundTrip ==
    ColorInUnit(color) =>
        /\ pc \in {"parsed", "done"} =>
            /\ Len(hex) = (IF include_alpha THEN 9 ELSE 7)
            /\ result = Ok(QuantizedOf(hex, include_alpha))
        /\ pc = "done" => rehex = hex

C2_Witness ==
    /\ pc = "done"
    /\ ColorInUnit(color)
    /\ include_alpha
    /\ rehex = hex
    /\ result.c # color
    /\ hex = <<"#", "7", "F", "F", "E", "7", "F", "7", "F">>

\* b is floor(x * 255) of f32, 0 below 0.0 and 255 above 1.0
ByteOf(x, b) ==
    /\ FLt(x, Zero) => b = 0
    /\ FLt(One, x) => b = 255
    /\ InUnit(x) => LET p == FMul(x, F255)
                    IN /\ FLe(FromInt(b), p)
                       /\ b < 255 => FLt(p, FromInt(b + 1))

\* C10: as_hex always returns "#" and 6 (8 with alpha) uppercase hex digits, each
\* channel truncated to floor(channel * 255), 00 below 0.0 and FF above 1.0;
\* from_hex of that string never fails.
C10_WellFormed ==
    pc \in {"parse", "parsed", "done"} =>
        /\ Len(hex) = (IF include_alpha THEN 9 ELSE 7)
        /\ hex[1] = "#"
        /\ \A i \in 2..Len(hex) : \E j \in 1..16 : hex[i] = UpperHexDigits[j]
        /\ ByteOf(color.r, PairValue(Tail(hex), 1))
        /\ ByteOf(color.g, PairValue(Tail(hex), 2))
        /\ ByteOf(color.b, PairValue(Tail(hex), 3))
        /\ include_alpha => ByteOf(color.a, PairValue(Tail(hex), 4))
        /\ pc # "parse" => result.k = "Ok"

C10_Witness ==
    /\ pc = "done"
    /\ FLt(One, color.r)
    /\ FLt(color.g, Zero)
    /\ include_alpha
    /\ hex = <<"#", "F", "F", "0", "0", "0", "0", "0", "0">>
    /\ result.k = "Ok"

(***************************************************************************)
(* Color::from_hsv on a triple.                                            *)
(***************************************************************************)
FromHsv ==
    /\ pc = "hsv"
    /\ result' = from_hsv(hsv[1], hsv[2], hsv[3])
    /\ pc' = "returned"
    /\ UNCHANGED <<hex, color, include_alpha, rehex, hsv, canvasVars>>

InitFromHsv ==
    /\ pc = "hsv"
    /\ hsv \in HsvInputs \X HsvInputs \X HsvInputs
    /\ hex = <<>>
    /\ result = Err
    /\ color = transparent
    /\ include_alpha = FALSE
    /\ rehex = <<>>
    /\ canvas = Canvas_new(0)
    /\ drawn = 0
    /\ renderer = NoRenderer
    /\ output = NoOutput

NextFromHsv == FromHsv

SpecFromHsv == InitFromHsv /\ [][NextFromHsv]_vars

(***************************************************************************)
(* Properties of from_hsv.                                                 *)
(***************************************************************************)
\* C4: from_hsv returns an error value (no abort) when hue + saturation + value
\* exceeds 3.0, and a color otherwise.
C4_RecoverableError ==
    pc = "returned" =>
        IF FLt(FromInt(3), FAdd(FAdd(hsv[1], hsv[2]), hsv[3]))
        THEN result.k = "Err"
        ELSE result.k = "Ok"

FMax(a, b) == IF FLe(a, b) THEN b ELSE a
FMin(a, b) == IF FLe(a, b) THEN a ELSE b
MaxRgb(c) == FMax(c.r, FMax(c.g, c.b))
MinRgb(c) == FMin(c.r, FMin(c.g, c.b))

\* the unit in the last place of a finite x
Ulp(x) == IF IsZero(x) THEN Zero ELSE RoundPack(0, 1, x.exp + BitLen(x.man) - 24)
Within(a, b, ulps, x) == FLe(FAbs(FSub(a, b)), FMul(FromInt(ulps), Ulp(x)))

HsvInUnit == InUnit(hsv[1]) /\ InUnit(hsv[2]) /\ InUnit(hsv[3])

\* C9 as claimed: for hue, saturation, value in [0, 1] the color has alpha 1.0
\* and r, g, b in [0, 1], its largest channel is value and its smallest
\* value * (1 - saturation); hue 0 and hue 1 give r = value,
\* g = b = value * (1 - saturation).
C9_ExactValue ==
    (pc = "returned" /\ HsvInUnit) =>
        LET c == result.c
            low == FMul(hsv[3], FSub(One, hsv[2]))
        IN /\ result.k = "Ok"
           /\ c.a = One
           /\ InUnit(c.r) /\ InUnit(c.g) /\ InUnit(c.b)
           /\ MaxRgb(c) = hsv[3]
           /\ MinRgb(c) = low
           /\ hsv[1] \in {Zero, One} => (c.r = hsv[3] /\ c.g = low /\ c.b = low)

\* C9 as amended: alpha is 1.0 and r, g, b lie in [0, 1]; the smallest channel
\* is value - saturation * value as f32 computes it, within two units in the
\* last place of value of value * (1 - saturation); the largest is within one
\* such unit of value; hue 0 and hue 1 give the same color, whose r is the
\* largest channel and whose g and b are both the smallest.
C9_ValueWithinUlp ==
    (pc = "returned" /\ HsvInUnit) =>
        LET c == result.c
            low == FSub(hsv[3], FMul(hsv[2], hsv[3]))
        IN /\ result.k = "Ok"
           /\ c.a = One
           /\ InUnit(c.r) /\ InUnit(c.g) /\ InUnit(c.b)
           /\ Within(MaxRgb(c), hsv[3], 1, hsv[3])
           /\ MinRgb(c) = low
           /\ Within(low, FMul(hsv[3], FSub(One, hsv[2])), 2, hsv[3])
           /\ hsv[1] \in {Zero, One} =>
                /\ result = from_hsv(Zero, hsv[2], hsv[3])
                /\ c.r = MaxRgb(c)
                /\ c.g = low /\ c.b = low

C9_Witness ==
    /\ pc = "returned"
    /\ hsv = <<One, FDiv(One, FromInt(12)), FDiv(FromInt(5), FromInt(12))>>
    /\ result.k = "Ok"
    /\ result.c.r # hsv[3]
    /\ result.c.r = MaxRgb(result.c)
    /\ result.c.g = result.c.b

(***************************************************************************)
(* The canvas: draw_* calls and render, as examples/smile.rs makes them.   *)
(***************************************************************************)
DrawCircle ==
    /\ Len(canvas.shapes) < MaxShapes
    /\ \E fill \in {None, Some(FaceFill)} :
        canvas' = draw_circle(canvas, <<0, 0>>, 100, None, fill)
    /\ drawn' = drawn + 1
    /\ UNCHANGED <<pc, colorVars, renderer, output>>

DrawLine ==
    /\ Len(canvas.shapes) < MaxShapes
    /\ \E x \in {0 - 50, 50} :
        canvas' = draw_line(canvas, <<x, 25>>, <<x, 0>>, Some(EyeStroke), None)
    /\ drawn' = drawn + 1
    /\ UNCHANGED <<pc, colorVars, renderer, output>>

DrawQuadraticBezier ==
    /\ Len(canvas.shapes) < MaxShapes
    /\ canvas' = draw_quadratic_bezier(canvas, <<0 - 50, 0 - 30>>, <<0, 0 - 50>>, <<50, 0 - 30>>,
                                       Some(MouthStroke), None)
    /\ drawn' = drawn + 1
    /\ UNCHANGED <<pc, colorVars, renderer, output>>

DrawPath ==
    /\ Len(canvas.shapes) < MaxShapes
    /\ canvas' = draw_path(canvas, <<[op |-> "move_to", to |-> <<0, 0>>],
                                     [op |-> "line_to", to |-> <<50, 0>>],
                                     [op |-> "quadratic_bezier_to", control |-> <<50, 50>>,
                                      to |-> <<0, 50>>]>>,
                           Some(MouthStroke), Some(black))
    /\ drawn' = drawn + 1
    /\ UNCHANGED <<pc, colorVars, renderer, output>>

\* a render that drains the shape list it walks
RenderDraining ==
    /\ \E rd \in Renderers :
        /\ renderer' = rd
        /\ output' = render(canvas, rd)
    /\ canvas' = [canvas EXCEPT !.shapes = <<>>]
    /\ UNCHANGED <<pc, colorVars, drawn>>

Render ==
    /\ \E rd \in Renderers :
        /\ renderer' = rd
        /\ output' = render(canvas, rd)
    /\ UNCHANGED <<pc, colorVars, canvas, drawn>>

Init ==
    /\ pc = "main"
    /\ canvas = Canvas_new(1000)
    /\ drawn = 0
    /\ renderer = NoRenderer
    /\ output = NoOutput
    /\ hex = <<>>
    /\ result = Err
    /\ color = transparent
    /\ include_alpha = FALSE
    /\ rehex = <<>>
    /\ hsv = <<Zero, Zero, Zero>>

Next == DrawCircle \/ DrawLine \/ DrawQuadraticBezier \/ DrawPath \/ Render

Spec == Init /\ [][Next]_vars

(***************************************************************************)
(* Properties of the canvas.                                               *)
(***************************************************************************)
\* the shape list of examples/smile.rs
SmileShapes ==
    draw_quadratic_bezier(
        draw_line(
            draw_line(
                draw_circle(Canvas_new(1000), <<0, 0>>, 100, None, Some(FaceFill)),
                <<0 - 50, 25>>, <<0 - 50, 0>>, Some(EyeStroke), None),
            <<50, 25>>, <<50, 0>>, Some(EyeStroke), None),
        <<0 - 50, 0 - 30>>, <<0, 0 - 50>>, <<50, 0 - 30>>, Some(MouthStroke), None).shapes

\* C7: the shape list is as long as the number of draw_* calls made; a draw_*
\* call appends one record and leaves the earlier ones and the size alone; a
\* render call leaves the canvas as it was.
C7_AppendOnly ==
    /\ [](Len(canvas.shapes) = drawn)
    /\ [][/\ drawn' \in {drawn, drawn + 1}
          /\ drawn' = drawn + 1 =>
                /\ Len(canvas'.shapes) = Len(canvas.shapes) + 1
                /\ SubSeq(canvas'.shapes, 1, Len(canvas.shapes)) = canvas.shapes
                /\ canvas'.size = canvas.size
          /\ drawn' = drawn => canvas' = canvas
          /\ (output' # output \/ renderer' # renderer) => (canvas' = canvas /\ drawn' = drawn)]_vars

C7_Witness ==
    /\ drawn = 4
    /\ canvas.shapes = SmileShapes
    /\ output.kind = "skia"
    /\ Len(output.body) = 2

\* C8: the markup a render returns holds the background element first when one
\* is configured, then exactly one element per shape, in the order drawn.
C8_InsertionOrder ==
    [][(output' # output \/ renderer' # renderer) /\ renderer'.kind = "svg" =>
        LET off == IF renderer'.background.some THEN 1 ELSE 0
        IN /\ Len(output'.body) = off + Len(canvas.shapes)
           /\ off = 1 => output'.body[1].of = "Background"
           /\ \A i \in 1..Len(canvas.shapes) :
                /\ output'.body[off + i].shape = canvas.shapes[i].shape
                /\ output'.body[off + i].stroke = canvas.shapes[i].stroke
                /\ output'.body[off + i].fill = canvas.shapes[i].fill]_vars

C8_Witness ==
    /\ canvas.shapes = SmileShapes
    /\ renderer = SvgRenderer_new(1000, Some(white))
    /\ Len(output.body) = 5
    /\ output.body[1].of = "Background"
    /\ output.body[2].of = "Circle"
    /\ output.body[5].of = "QuadraticBezier"

====
